---- MODULE Spec2Model ----
(***************************************************************************)
(* doc-search: the lexical engine (RipgrepWrapper), the retry decorator,   *)
(* the error handler, the semantic engine (SemanticSearchEngine) and the   *)
(* orchestrator (SearchIntegration.perform_search).                        *)
(*                                                                         *)
(* Text is a sequence of one-character strings; offsets are 0-based as in  *)
(* Python.  A file is [path, lines, readable]; a corpus is the sequence of *)
(* files below the search path, in the order the file system lists them.   *)
(*                                                                         *)
(* Specifications: SpecScan and SpecLiteral (the two scanners), SpecParse  *)
(* (the loop over the matcher's output), SpecRetry (the retry decorator),  *)
(* SpecErrors (handle_search_error), SpecCache, SpecEmbed, SpecSearch and  *)
(* SpecKey (the semantic engine), SpecMerge (conversion and sort), Spec,   *)
(* SpecFirst and SpecPath (perform_search, alone, overlapping, and with    *)
(* update_search_path).                                                    *)
(***************************************************************************)
EXTENDS Integers, Sequences, FiniteSets, TLC

\* ------------------------------------------------------------------ bounds
MaxFiles == 2      \* files in a corpus of SpecScan
MaxLines == 2      \* lines in a file of SpecScan
MaxN     == 2      \* largest max_results tried in SpecScan
MaxLineLen  == 3   \* characters in the line of SpecLiteral
MaxQueryLen == 2   \* characters in the query of SpecLiteral

\* ------------------------------------------------------------ text helpers
\* Optional[int] = None (SearchOptions.max_results default)
NoneInt == 0 - 1

LowerChar(c) == IF c = "A" THEN "a" ELSE IF c = "B" THEN "b" ELSE c

\* str.lower()
Lower(s) == [i \in DOMAIN s |-> LowerChar(s[i])]

\* s[p : p + len(q)] == q
OccursAt(s, q, p) ==
    /\ p >= 0
    /\ p + Len(q) <= Len(s)
    /\ \A i \in 1..Len(q) : s[p + i] = q[i]

\* str.find(q, start): the least position >= start at which q occurs, else -1
PyFind(s, q, start) ==
    LET hits == {p \in start..(Len(s) - Len(q)) : OccursAt(s, q, p)}
    IN  IF hits = {} THEN 0 - 1
        ELSE CHOOSE p \in hits : \A r \in hits : p <= r

\* `q in s`
Contains(s, q) == PyFind(s, q, 0) # 0 - 1

\* A path as the words it is made of: names, '.' and '/'.  Substring tests
\* on a path are made word by word.
PathTokens(path) ==
    CASE path = "README.md"      -> <<"README", ".", "md">>
      [] path = "notes.txt"      -> <<"notes", ".", "txt">>
      [] path = "main.py"        -> <<"main", ".", "py">>
      [] path = "guide.rst"      -> <<"guide", ".", "rst">>
      [] path = "readme/main.py" -> <<"readme", "/", "main", ".", "py">>
      [] path = "v1.md/main.py"  -> <<"v1", ".", "md", "/", "main", ".", "py">>
      [] OTHER                   -> <<path>>

\* str.lower() on one word of a path
LowerToken(t) == IF t = "README" THEN "readme" ELSE t

\* the suffix after the last '.' of the file name: what Path.rglob('*.ext')
\* matches
Ext(path) ==
    LET toks == PathTokens(path)
        n    == Len(toks)
    IN  IF n >= 3 /\ toks[n - 1] = "." THEN toks[n] ELSE "none"

\* ------------------------------------------- the fallback scanner (Python)
\* file_patterns: the default document extensions, or one glob per file type
FilePatterns(options) ==
    IF options.file_types = <<>> THEN <<"md", "py", "txt">>
    ELSE options.file_types

\* path.rglob('*.' + ext), in file-system order
Rglob(files, ext) == SelectSeq(files, LAMBDA f : Ext(f.path) = ext)

\* the files visited by the two nested loops, pattern by pattern
RECURSIVE VisitsFrom(_, _, _)
VisitsFrom(files, patterns, k) ==
    IF k > Len(patterns) THEN <<>>
    ELSE Rglob(files, patterns[k]) \o VisitsFrom(files, patterns, k + 1)

Visits(files, options) == VisitsFrom(files, FilePatterns(options), 1)

\* a literal loop that resumes after the match: start = pos + len(query)
RECURSIVE LiteralLoopNonOverlap(_, _, _)
LiteralLoopNonOverlap(search_line, query_lower, start) ==
    LET pos == PyFind(search_line, query_lower, start)
    IN  IF pos = 0 - 1 THEN <<>>
        ELSE <<pos>> \o LiteralLoopNonOverlap(search_line, query_lower,
                                              pos + Len(query_lower))

\* the literal loop: pos = find(query_lower, start); start = pos + 1
RECURSIVE LiteralLoop(_, _, _)
LiteralLoop(search_line, query_lower, start) ==
    LET pos == PyFind(search_line, query_lower, start)
    IN  IF pos = 0 - 1 THEN <<>>
        ELSE <<pos>> \o LiteralLoop(search_line, query_lower, pos + 1)

\* the records one line yields in literal mode
LiteralLine(path, line_num, line, query, options) ==
    LET query_lower == IF options.case_sensitive THEN query ELSE Lower(query)
        search_line == IF options.case_sensitive THEN line ELSE Lower(line)
        poss        == LiteralLoop(search_line, query_lower, 0)
    IN  [k \in 1..Len(poss) |->
            [file_path    |-> path,
             line_number  |-> line_num,
             line_content |-> line,
             match_start  |-> poss[k],
             match_end    |-> poss[k] + Len(query)]]

\* the records of the lines line_num.. of one file, literal mode
RECURSIVE LiteralFile(_, _, _, _)
LiteralFile(file, line_num, query, options) ==
    IF line_num > Len(file.lines) THEN <<>>
    ELSE LiteralLine(file.path, line_num, file.lines[line_num], query, options)
         \o LiteralFile(file, line_num + 1, query, options)

\* result_count >= (options.max_results or float('inf'))
LimitReached(result_count, options) ==
    /\ options.max_results # NoneInt
    /\ options.max_results # 0
    /\ result_count >= options.max_results

\* The scan from the i-th visited file on.  In regex mode the loop variable
\* `pattern` (a glob string) has replaced the compiled pattern, so the first
\* line scanned raises AttributeError, which the (IOError, OSError) handler
\* does not catch.
RECURSIVE ScanFrom(_, _, _, _, _, _)
ScanFrom(visits, i, query, options, result_count, acc) ==
    IF i > Len(visits) THEN [results |-> acc, error |-> "none"]
    ELSE IF LimitReached(result_count, options)
         THEN [results |-> acc, error |-> "none"]
    ELSE LET file == visits[i] IN
         IF ~file.readable
         THEN ScanFrom(visits, i + 1, query, options, result_count, acc)
         ELSE IF options.use_regex
              THEN IF Len(file.lines) > 0
                   THEN [results |-> acc, error |-> "AttributeError"]
                   ELSE ScanFrom(visits, i + 1, query, options, result_count, acc)
              ELSE LET recs == LiteralFile(file, 1, query, options)
                   IN  ScanFrom(visits, i + 1, query, options,
                                result_count + Len(recs), acc \o recs)

\* RipgrepWrapper._search_with_python, iterated to exhaustion
SearchWithPython(query, files, options) ==
    ScanFrom(Visits(files, options), 1, query, options, 0, <<>>)

\* -------------------------------------- the accelerated matcher (rg --json)
\* One pattern character against one line character, as the tool compares
\* them: -i folds case, and without -F a '.' matches any character.
RgCharMatch(qc, c, options) ==
    \/ options.use_regex /\ qc = "."
    \/ IF options.case_sensitive THEN qc = c ELSE LowerChar(qc) = LowerChar(c)

RgMatchAt(line, query, p, options) ==
    /\ p + Len(query) <= Len(line)
    /\ \A i \in 1..Len(query) : RgCharMatch(query[i], line[p + i], options)

\* the bytes one character takes in the tool's output (UTF-8); "U+00E9"
\* stands for the one character e-acute
Utf8Len(c) == IF c = "U+00E9" THEN 2 ELSE 1

\* the bytes of line[0:p]: the tool reports submatch offsets in bytes
RECURSIVE ByteOffset(_, _)
ByteOffset(line, p) ==
    IF p = 0 THEN 0 ELSE Utf8Len(line[p]) + ByteOffset(line, p - 1)

\* The submatches the tool reports for one line: leftmost first, each search
\* resuming at the end of the previous match (matches never overlap).
RECURSIVE RgSubmatches(_, _, _, _)
RgSubmatches(line, query, start, options) ==
    LET hits == {p \in start..(Len(line) - Len(query)) :
                    RgMatchAt(line, query, p, options)}
    IN  IF hits = {} \/ Len(query) = 0 THEN <<>>
        ELSE LET p == CHOOSE h \in hits : \A r \in hits : h <= r
             IN  <<[start |-> ByteOffset(line, p),
                    end   |-> ByteOffset(line, p + Len(query))]>>
                 \o RgSubmatches(line, query, p + Len(query), options)

\* the files the command line selects: every file, or those of the -t types
RgSelected(files, options) ==
    SelectSeq(files, LAMBDA f :
        /\ f.readable
        /\ \/ options.file_types = <<>>
           \/ \E k \in 1..Len(options.file_types) :
                  Ext(f.path) = options.file_types[k])

\* `if options.max_results:` adds --max-count, a per-file cap on matching lines
RgMaxCount(options) ==
    IF options.max_results # NoneInt /\ options.max_results # 0
    THEN options.max_results ELSE NoneInt

\* the match events of one file from line line_num on; `left` is what
\* --max-count still allows (NoneInt: no cap)
RECURSIVE RgFileEvents(_, _, _, _, _)
RgFileEvents(file, line_num, query, options, left) ==
    IF line_num > Len(file.lines) \/ left = 0 THEN <<>>
    ELSE LET subs == RgSubmatches(file.lines[line_num], query, 0, options)
         IN  IF subs = <<>>
             THEN RgFileEvents(file, line_num + 1, query, options, left)
             ELSE <<[type        |-> "match",
                     path        |-> file.path,
                     line_number |-> line_num,
                     lines       |-> file.lines[line_num],
                     submatches  |-> subs]>>
                  \o RgFileEvents(file, line_num + 1, query, options,
                                  IF left = NoneInt THEN NoneInt ELSE left - 1)

RECURSIVE RgEventsFrom(_, _, _, _)
RgEventsFrom(sel, i, query, options) ==
    IF i > Len(sel) THEN <<>>
    ELSE RgFileEvents(sel[i], 1, query, options, RgMaxCount(options))
         \o RgEventsFrom(sel, i + 1, query, options)

\* an output line that is valid JSON but no match event (begin, end, context,
\* summary)
OtherEvent ==
    [type |-> "summary", path |-> "", line_number |-> 0,
     lines |-> <<>>, submatches |-> <<>>]

\* the standard output of one healthy run of the command built in
\* _search_with_ripgrep
RgOutput(query, files, options) ==
    RgEventsFrom(RgSelected(files, options), 1, query, options) \o <<OtherEvent>>

\* The body of the `for line in process.stdout` loop: the records one output
\* line yields.  A line that is not JSON is logged and skipped; a match event
\* without its fields raises KeyError, which nothing here catches.
ParseEvent(ev) ==
    IF ev.type = "garbage" THEN [records |-> <<>>, error |-> "none"]
    ELSE IF ev.type = "match_nofields"
         THEN [records |-> <<>>, error |-> "KeyError"]
    ELSE IF ev.type = "match"
         THEN [records |->
                  [k \in 1..Len(ev.submatches) |->
                      [file_path    |-> ev.path,
                       line_number  |-> ev.line_number,
                       line_content |-> ev.lines,
                       match_start  |-> ev.submatches[k].start,
                       match_end    |-> ev.submatches[k].end]],
               error |-> "none"]
    ELSE [records |-> <<>>, error |-> "none"]

\* the loop over a whole output
RECURSIVE ParseAll(_, _)
ParseAll(events, i) ==
    IF i > Len(events) THEN <<>>
    ELSE ParseEvent(events[i]).records \o ParseAll(events, i + 1)

\* ------------------------------------------------ inputs of the scan model
Lines == {<<"a", "a", "a">>, <<"A", "b">>, <<"U+00E9", "a">>}

Queries == {<<"a">>, <<"a", "a">>, <<"A">>}

ScanPaths == {"README.md", "notes.txt", "guide.rst"}

Contents == UNION {[1..n -> Lines] : n \in 0..MaxLines}

ScanFiles ==
    {[path |-> p, lines |-> c, readable |-> TRUE] : p \in ScanPaths, c \in Contents}
    \cup {[path |-> p, lines |-> <<>>, readable |-> FALSE] : p \in ScanPaths}

\* a directory holds no two files of one path
Corpora ==
    {fs \in UNION {[1..n -> ScanFiles] : n \in 1..MaxFiles} :
        \A i, j \in DOMAIN fs : i # j => fs[i].path # fs[j].path}

ScanOptions ==
    [case_sensitive : BOOLEAN,
     use_regex      : BOOLEAN,
     file_types     : {<<>>, <<"md">>},
     max_results    : {NoneInt} \cup (0..MaxN),
     context_lines  : {0}]

NotRun == [ran |-> FALSE, results |-> <<>>, error |-> "none"]

\* the (path, line, start, end) tuples of a result sequence
Tuples(results) ==
    {<<results[k].file_path, results[k].line_number,
       results[k].match_start, results[k].match_end>> : k \in DOMAIN results}

Min(a, b) == IF a <= b THEN a ELSE b

Range(seq) == {seq[i] : i \in DOMAIN seq}

\* ------------------------------------------- SearchIntegration: constants
MaxCalls == 2      \* perform_search calls made on one SearchIntegration
MaxLex   == 2      \* lexical results in a merge of SpecMerge
MaxIdx   == 2      \* index entries in a merge of SpecMerge
MaxEntries == 4    \* index entries in a search of SpecSearch
MaxTopK    == 2    \* largest top_k in a search of SpecSearch
MaxDocs    == 2    \* documents given to build_index in SpecCache

Calls == 1..MaxCalls

\* perform_search(max_results=100)
DefaultMaxResults == 100

\* SearchOptions(context_lines=2)
ContextLines == 2

\* self._semantic_engine.search(query, top_k=5)
TopK == 5

\* similarity_threshold = 0.5; similarities are held in hundredths
SimilarityThreshold == 50

\* @retry(max_attempts=3, delay=0.5, ...), backoff=2.0; delays in tenths of a second
RetryMaxAttempts == 3

RetryDelay == 5

RetryBackoff == 2

\* RipgrepWrapper(fallback_to_python=True)
fallback_to_python == TRUE

\* the files below search_path
OrchFiles ==
    <<[path |-> "README.md", lines |-> <<<<"a", "b">>>>, readable |-> TRUE],
      [path |-> "notes.txt", lines |-> <<<<"a", "a">>>>, readable |-> TRUE]>>

\* the directories search_path is set to: the one given to the constructor
\* and one given to update_search_path
SearchPaths == {"docs", "src"}

\* the files below a directory
FilesBelow(path) ==
    IF path = "docs" THEN OrchFiles
    ELSE <<[path |-> "main.py", lines |-> <<<<"a", "b">>>>, readable |-> TRUE]>>

\* the queries the front-end submits
OrchQueries == {<<>>, <<"a">>, <<"a", ".">>}

\* similarities the embedding model may produce, in hundredths
SimLevels == {40, 50, 100}

\* SpecMerge: the lexical records a search may hand to the conversion loop
LexCandidates ==
    {[file_path |-> p, line_number |-> 1, line_content |-> l,
      match_start |-> 0, match_end |-> 1] :
        p \in {"README.md", "notes.txt", "main.py", "readme/main.py", "v1.md/main.py"},
        l \in {<<"a", "b">>, <<"b">>}}

\* SpecMerge: the index entries, in insertion order
MergeIndex ==
    <<[file_path |-> "README.md", chunk_index |-> 0],
      [file_path |-> "notes.txt", chunk_index |-> 0],
      [file_path |-> "main.py", chunk_index |-> 0]>>

\* SpecMerge: similarities in hundredths, on both sides of the threshold and
\* of each score step
MergeSims == {40, 50, 60, 70, 80, 100}

\* what launching the subprocess may do
LaunchOutcomes == {"ok", "OSError", "SubprocessError"}

\* the SearchOptions perform_search builds
OrchOptions(use_regex) ==
    [case_sensitive |-> FALSE,
     use_regex      |-> use_regex,
     file_types     |-> <<>>,
     max_results    |-> DefaultMaxResults,
     context_lines  |-> ContextLines]

\* 'readme' in result.file_path.lower(): anywhere in the path
PathHasReadme(path) ==
    \E i \in DOMAIN PathTokens(path) : LowerToken(PathTokens(path)[i]) = "readme"

\* any(ext in result.file_path for ext in ['.md', '.rst', '.txt']): anywhere
\* in the path
PathHasDocExt(path) ==
    LET toks == PathTokens(path)
    IN  \E i \in 1..(Len(toks) - 1) :
            toks[i] = "." /\ toks[i + 1] \in {"md", "rst", "txt"}

\* SearchIntegration._calculate_score
CalculateScore(result, query) ==
    IF Contains(Lower(result.line_content), Lower(query))
    THEN IF PathHasReadme(result.file_path) THEN 5
         ELSE IF PathHasDocExt(result.file_path) THEN 4
         ELSE 3
    ELSE 2

\* The loop that converts the lexical results.  origin and arrival are not
\* fields of the UI result: they record which engine produced an entry and
\* its position in that engine's output.
LexicalToUI(results, query) ==
    [k \in 1..Len(results) |->
        [file_path   |-> results[k].file_path,
         line_number |-> results[k].line_number,
         content     |-> results[k].line_content,
         score       |-> CalculateScore(results[k], query),
         origin      |-> "lexical",
         arrival     |-> k]]

\* the indices 1..n ordered by key, largest first, equal keys in index order
RECURSIVE SortedIdx(_, _)
SortedIdx(keys, n) ==
    IF n = 0 THEN <<>>
    ELSE LET sorted == SortedIdx(keys, n - 1)
             pos    == Cardinality({j \in 1..Len(sorted) : keys[sorted[j]] >= keys[n]})
         IN  SubSeq(sorted, 1, pos) \o <<n>> \o SubSeq(sorted, pos + 1, Len(sorted))

\* list.sort(key=..., reverse=True): a stable sort, equal keys keep their order
StableSortDesc(seq, keys) ==
    LET idx == SortedIdx(keys, Len(seq))
    IN  [k \in 1..Len(seq) |-> seq[idx[k]]]

\* a sort that is not stable: ascending, then reversed, so that entries of
\* equal score come out in the opposite of their arrival order
SortByScoreReversed(ui_results) ==
    LET n   == Len(ui_results)
        rev == [k \in 1..n |-> ui_results[n + 1 - k]]
    IN  StableSortDesc(rev, [k \in 1..n |-> rev[k].score])

\* ui_results.sort(key=lambda x: x.score, reverse=True)
SortByScore(ui_results) ==
    StableSortDesc(ui_results, [k \in 1..Len(ui_results) |-> ui_results[k].score])

\* a search that cuts the list to top_k before it sorts it
\* str(chunk_index) and int(s), for the chunk indexes in use
Digits == <<"0", "1", "2", "3", "4", "5", "6", "7", "8", "9">>

IntStr(i) == Digits[i + 1]

IsIntStr(s) == \E i \in DOMAIN Digits : Digits[i] = s

ParseInt(s) == (CHOOSE i \in DOMAIN Digits : Digits[i] = s) - 1

\* path.split(':')
ColonSplit(path) ==
    CASE path = "C:/docs/a.md" -> <<"C", "/docs/a.md">>
      [] path = "notes:2:x.md" -> <<"notes", "2", "x.md">>
      [] path = "a:b.md"       -> <<"a", "b.md">>
      [] OTHER                 -> <<path>>

\* f"{file_path}:{chunk_index}:{content_hash}".split(':'): the key of an
\* index entry as _parse_cache_key divides it
CacheKeyParts(key) ==
    ColonSplit(key.file_path) \o <<IntStr(key.chunk_index), "md5">>

\* _parse_cache_key: parts[0] is taken for the path and int(parts[1]) for
\* the chunk index; int raises ValueError on what is no number
ParseCacheKey(parts) ==
    IF IsIntStr(parts[2])
    THEN [file_path |-> parts[1], chunk_index |-> ParseInt(parts[2]),
          error |-> "none"]
    ELSE [file_path |-> parts[1], chunk_index |-> NoneInt,
          error |-> "ValueError"]

\* what search raises while it builds its results: the first failure of
\* _parse_cache_key among the entries it reports
SearchRaises(index, sims, top_k, similarity_threshold) ==
    LET pairs  == [i \in 1..Len(index) |-> [key |-> index[i], similarity |-> sims[i]]]
        kept   == SelectSeq(pairs, LAMBDA p : p.similarity >= similarity_threshold)
        sorted == StableSortDesc(kept, [k \in 1..Len(kept) |-> kept[k].similarity])
        top    == SubSeq(sorted, 1, Min(top_k, Len(sorted)))
    IN  IF \E k \in 1..Len(top) :
               ParseCacheKey(CacheKeyParts(top[k].key)).error # "none"
        THEN "ValueError" ELSE "none"

SemanticSearchCutFirst(index, sims, top_k, similarity_threshold) ==
    LET pairs  == [i \in 1..Len(index) |-> [key |-> index[i], similarity |-> sims[i]]]
        kept   == SelectSeq(pairs, LAMBDA p : p.similarity >= similarity_threshold)
        cut    == SubSeq(kept, 1, Min(top_k, Len(kept)))
        top    == StableSortDesc(cut, [k \in 1..Len(cut) |-> cut[k].similarity])
    IN  [k \in 1..Len(top) |->
            LET parsed == ParseCacheKey(CacheKeyParts(top[k].key))
            IN  [file_path        |-> parsed.file_path,
                 content          |-> <<"[Chunk]", parsed.file_path>>,
                 similarity_score |-> top[k].similarity,
                 chunk_index      |-> parsed.chunk_index]]

\* SemanticSearchEngine.search: index is the embeddings cache in insertion
\* order, sims[i] the cosine similarity of the query to its i-th entry
SemanticSearch(index, sims, top_k, similarity_threshold) ==
    LET pairs  == [i \in 1..Len(index) |-> [key |-> index[i], similarity |-> sims[i]]]
        kept   == SelectSeq(pairs, LAMBDA p : p.similarity >= similarity_threshold)
        sorted == StableSortDesc(kept, [k \in 1..Len(kept) |-> kept[k].similarity])
        top    == SubSeq(sorted, 1, Min(top_k, Len(sorted)))
    IN  [k \in 1..Len(top) |->
            LET parsed == ParseCacheKey(CacheKeyParts(top[k].key))
            IN  [file_path        |-> parsed.file_path,
                 content          |-> <<"[Chunk]", parsed.file_path>>,
                 similarity_score |-> top[k].similarity,
                 chunk_index      |-> parsed.chunk_index]]

\* a conversion that maps 0-1 onto 1-5 by adding one to the truncated product
SemanticToUIPlusOne(semantic_results) ==
    [k \in 1..Len(semantic_results) |->
        [file_path   |-> semantic_results[k].file_path,
         line_number |-> 0,
         content     |-> <<"[Semantic]">> \o semantic_results[k].content,
         score       |-> (semantic_results[k].similarity_score * 5) \div 100 + 1,
         origin      |-> "semantic",
         arrival     |-> k]]

\* the conversion loop of _perform_semantic_search: score = int(similarity * 5)
SemanticToUI(semantic_results) ==
    [k \in 1..Len(semantic_results) |->
        [file_path   |-> semantic_results[k].file_path,
         line_number |-> 0,
         content     |-> <<"[Semantic]">> \o semantic_results[k].content,
         score       |-> (semantic_results[k].similarity_score * 5) \div 100,
         origin      |-> "semantic",
         arrival     |-> k]]

\* _build_semantic_index: the documents the three globs collect; a file that
\* cannot be read is passed over
CollectDocuments(files) ==
    VisitsFrom(SelectSeq(files, LAMBDA f : f.readable), <<"md", "py", "txt">>, 1)

\* build_index, one document: self._embeddings_cache[cache_key] = embedding
AddToIndex(index, doc) ==
    LET key == [file_path |-> doc.path, chunk_index |-> 0]
    IN  IF \E i \in 1..Len(index) : index[i] = key THEN index
        ELSE Append(index, key)

\* perform_search from the conversion loop to the return: the lexical results
\* are converted, the semantic ones appended, the whole sorted by score
MergeResults(results, query, idx, sims) ==
    SortByScore(LexicalToUI(results, query)
                \o SemanticToUI(SemanticSearch(idx, sims, TopK, SimilarityThreshold)))

IdleCall ==
    [pc |-> "idle", query |-> <<>>, use_regex |-> FALSE, path |-> "",
     reqNo |-> 0, ret |-> <<>>, error |-> "none"]

IdleLex ==
    [pc |-> "idle", attempt |-> 0, launches |-> 0, launchFailed |-> FALSE,
     sleeps |-> <<>>, stdout |-> <<>>, hung |-> FALSE, exit |-> 0,
     results |-> <<>>, raised |-> "none", usedFallback |-> FALSE]

IdleBuild == [pc |-> "idle", docs |-> <<>>, next |-> 1]

VARIABLES
    scanFiles,     \* SpecScan: the corpus below the search path
    scanQuery,     \* SpecScan: the query
    scanOptions,   \* SpecScan: the SearchOptions
    pyOut,         \* SpecScan: what _search_with_python yielded, once run
    rgOut,         \* SpecScan: what _search_with_ripgrep yielded, once run
    merge,         \* SpecMerge: the inputs and the result of one merge
    handled,       \* SpecErrors: one call of handle_search_error
    srch,          \* SpecSearch: one call of SemanticSearchEngine.search
    cacheRun,      \* SpecCache: build_index runs over one cache directory
    emb,           \* SpecEmbed: the vectors one engine generated, by dimension
    parse,         \* SpecParse: one run of the loop over the matcher's output
    rt,            \* SpecRetry: one call of a function wrapped by retry
    keyed,         \* SpecKey: one chunk indexed and reported by search
    rgAvailable,   \* RipgrepWrapper._ripgrep_available
    semanticOn,    \* enable_semantic and _semantic_available
    searchPath,    \* SearchIntegration.search_path
    call,          \* per perform_search call: the coroutine on the control thread
    lex,           \* per call: the executor task running _search_sync
    build,         \* per call: the executor task running build_index
    engine,        \* SearchIntegration._semantic_engine: "none" or "created"
    index,         \* SemanticSearchEngine._embeddings_cache, in insertion order
    lastReq,       \* perform_search calls made so far
    controlWork,   \* kinds of search work that ran on the control thread
    executorWork   \* kinds of search work that ran on executor threads

scanVars == <<scanFiles, scanQuery, scanOptions, pyOut, rgOut, merge,
              handled, srch, cacheRun, emb, parse, rt, keyed>>

\* the variables of the function-level models other than the scan's
funVars == <<merge, handled, srch, cacheRun, emb, parse, rt, keyed>>

\* the function-level models of the embedding backend, the output parser,
\* the retry decorator and the cache key
moreVars == <<emb, parse, rt, keyed>>

orchVars == <<searchPath, rgAvailable, semanticOn, call, lex, build, engine, index,
              lastReq, controlWork, executorWork>>

vars == <<scanFiles, scanQuery, scanOptions, pyOut, rgOut, merge,
          handled, srch, cacheRun, emb, parse, rt, keyed,
          searchPath, rgAvailable, semanticOn, call, lex, build, engine, index,
          lastReq, controlWork, executorWork>>

NoMerge == [query |-> <<>>, results |-> <<>>, sims |-> <<>>, ret |-> <<>>, done |-> FALSE]

NoHandled == [error |-> "none", text |-> "", fallback_message |-> "",
              message |-> <<>>, done |-> FALSE]

NoSearch == [top_k |-> 0, similarity_threshold |-> 0, sims |-> <<>>,
             results |-> <<>>, done |-> FALSE]

\* disk1 and unreadable are not state of the engine: they record the cache
\* directory as the second run found it and the entries it could not load
NoCacheRun == [documents |-> <<>>, disk |-> {}, cache |-> <<>>, run |-> 0,
               next |-> 1, computed |-> <<0, 0>>, disk1 |-> {},
               unreadable |-> {}]

NoEmb == [use_openai |-> FALSE, openai_api_key |-> FALSE, vectors |-> <<>>,
          query |-> 0, error |-> "none"]

NoParse == [stdout |-> <<>>, next |-> 1, results |-> <<>>, error |-> "none"]

\* outcomes and sleeps are not state of the wrapper: they record what the
\* wrapped function did at each invocation and what time.sleep was given
NoRetry == [max_attempts |-> 0, delay |-> 0, backoff |-> 0, outcomes |-> <<>>,
            attempt |-> 0, current_delay |-> 0, sleeps |-> <<>>,
            result |-> "none"]

NoKeyed == [file_path |-> "", chunk_index |-> 0, similarity |-> 0, top_k |-> 0,
            results |-> <<>>, error |-> "none", done |-> FALSE]

MoreIdle ==
    /\ emb = NoEmb
    /\ parse = NoParse
    /\ rt = NoRetry
    /\ keyed = NoKeyed

\* the function-level models other than the merge's are not in use
FunIdle ==
    /\ handled = NoHandled
    /\ srch = NoSearch
    /\ cacheRun = NoCacheRun
    /\ MoreIdle

\* SearchIntegration.__init__: nothing requested, no engine, empty index
OrchIdle ==
    /\ searchPath = "docs"
    /\ call = [c \in Calls |-> IdleCall]
    /\ lex = [c \in Calls |-> IdleLex]
    /\ build = [c \in Calls |-> IdleBuild]
    /\ engine = "none"
    /\ index = <<>>
    /\ lastReq = 0
    /\ controlWork = {}
    /\ executorWork = {}

\* ------------------------------------------------------- the scan model
ScanInit ==
    /\ scanFiles \in Corpora
    /\ scanQuery \in Queries
    /\ scanOptions \in ScanOptions
    /\ pyOut = NotRun
    /\ rgOut = NotRun
    /\ merge = NoMerge
    /\ FunIdle
    /\ rgAvailable = TRUE
    /\ semanticOn = FALSE
    /\ OrchIdle

\* list(wrapper._search_with_python(query, path, options))
RunPython ==
    /\ ~pyOut.ran
    /\ LET out == SearchWithPython(scanQuery, scanFiles, scanOptions)
       IN  pyOut' = [ran |-> TRUE, results |-> out.results, error |-> out.error]
    /\ UNCHANGED <<scanFiles, scanQuery, scanOptions, rgOut>>
    /\ UNCHANGED funVars
    /\ UNCHANGED orchVars

\* list(wrapper._search_with_ripgrep(query, path, options)) with the tool
\* installed and running to completion
RunRipgrep ==
    /\ ~rgOut.ran
    /\ rgOut' = [ran     |-> TRUE,
                 results |-> ParseAll(RgOutput(scanQuery, scanFiles, scanOptions), 1),
                 error   |-> "none"]
    /\ UNCHANGED <<scanFiles, scanQuery, scanOptions, pyOut>>
    /\ UNCHANGED funVars
    /\ UNCHANGED orchVars

ScanNext == RunPython \/ RunRipgrep

SpecScan == ScanInit /\ [][ScanNext]_vars

\* ---------------------------------------------------- the literal model
\* the characters lines and queries are made of
Alphabet == {"a", "A", "b"}

\* one file of one line, every line and query over the alphabet, literal mode
LiteralInit ==
    /\ scanFiles \in
           {<<[path |-> "README.md", lines |-> <<l>>, readable |-> TRUE]>> :
               l \in UNION {[1..n -> Alphabet] : n \in 0..MaxLineLen}}
    /\ scanQuery \in UNION {[1..n -> Alphabet] : n \in 1..MaxQueryLen}
    /\ scanOptions \in [case_sensitive : BOOLEAN,
                        use_regex      : {FALSE},
                        file_types     : {<<>>},
                        max_results    : {NoneInt},
                        context_lines  : {0}]
    /\ pyOut = NotRun
    /\ rgOut = NotRun
    /\ merge = NoMerge
    /\ FunIdle
    /\ rgAvailable = FALSE
    /\ semanticOn = FALSE
    /\ OrchIdle

SpecLiteral == LiteralInit /\ [][RunPython]_vars

\* ------------------------------------------------------ the error model
\* the exception classes a search can meet
ErrorTypes ==
    {"RipgrepNotFoundError", "SearchTimeoutError", "SearchError",
     "PermissionError", "FileNotFoundError", "TimeoutError", "OSError",
     "SubprocessError", "TimeoutExpired", "RuntimeError", "AttributeError",
     "KeyError"}

\* the classes an exception class derives from, itself included
Supers(type) ==
    {type, "Exception"} \cup
    (CASE type \in {"RipgrepNotFoundError", "SearchTimeoutError"} -> {"SearchError"}
       [] type \in {"PermissionError", "FileNotFoundError", "TimeoutError"} -> {"OSError"}
       [] type = "TimeoutExpired" -> {"SubprocessError"}
       [] OTHER -> {})

\* isinstance(error, cls)
IsInstance(type, cls) == cls \in Supers(type)

\* a handler that tests OSError before PermissionError
HandleSearchErrorOSFirst(type, text, fallback_message) ==
    IF IsInstance(type, "RipgrepNotFoundError") THEN <<"ripgrep_not_found">>
    ELSE IF IsInstance(type, "SearchTimeoutError") THEN <<"timeout">>
    ELSE IF IsInstance(type, "OSError") THEN <<"system_error", text>>
    ELSE IF IsInstance(type, "PermissionError") THEN <<"permission">>
    ELSE IF fallback_message # "" THEN <<fallback_message>>
    ELSE <<"error", text>>

\* ErrorHandler.handle_search_error: the message, with str(error) as text
HandleSearchError(type, text, fallback_message) ==
    IF IsInstance(type, "RipgrepNotFoundError") THEN <<"ripgrep_not_found">>
    ELSE IF IsInstance(type, "SearchTimeoutError") THEN <<"timeout">>
    ELSE IF IsInstance(type, "PermissionError") THEN <<"permission">>
    ELSE IF IsInstance(type, "OSError") THEN <<"system_error", text>>
    ELSE IF fallback_message # "" THEN <<fallback_message>>
    ELSE <<"error", text>>

\* an exception of any class, with any text, and the caller's fallback message
ErrorsInit ==
    /\ handled \in [error            : ErrorTypes,
                    text             : {"", "disk full"},
                    fallback_message : {"", "search failed", "try again"},
                    message          : {<<>>},
                    done             : {FALSE}]
    /\ srch = NoSearch
    /\ cacheRun = NoCacheRun
    /\ merge = NoMerge
    /\ scanFiles = <<>>
    /\ scanQuery = <<>>
    /\ scanOptions = OrchOptions(FALSE)
    /\ pyOut = NotRun
    /\ rgOut = NotRun
    /\ rgAvailable = TRUE
    /\ semanticOn = FALSE
    /\ MoreIdle
    /\ OrchIdle

\* ErrorHandler.handle_search_error(error, fallback_message)
HandleError ==
    /\ ~handled.done
    /\ handled' = [handled EXCEPT
                      !.done = TRUE,
                      !.message = HandleSearchError(handled.error, handled.text,
                                                    handled.fallback_message)]
    /\ UNCHANGED <<scanFiles, scanQuery, scanOptions, pyOut, rgOut>>
    /\ UNCHANGED <<merge, srch, cacheRun>>
    /\ UNCHANGED moreVars
    /\ UNCHANGED orchVars

SpecErrors == ErrorsInit /\ [][HandleError]_vars

\* ------------------------------------------------------ the cache model
\* _split_into_chunks(content, chunk_size=500)
ChunkSize == 500

\* The loop of _split_into_chunks from the i-th line on.  A line is modelled
\* by its length; a chunk is the sequence of its lines.
RECURSIVE SplitFrom(_, _, _, _, _, _)
SplitFrom(lines, i, current_chunk, current_size, chunks, chunk_size) ==
    IF i > Len(lines)
    THEN IF current_chunk # <<>> THEN Append(chunks, current_chunk) ELSE chunks
    ELSE LET line_size == lines[i] IN
         IF current_size + line_size > chunk_size /\ current_chunk # <<>>
         THEN SplitFrom(lines, i + 1, <<lines[i]>>, line_size,
                        Append(chunks, current_chunk), chunk_size)
         ELSE SplitFrom(lines, i + 1, Append(current_chunk, lines[i]),
                        current_size + line_size, chunks, chunk_size)

SplitIntoChunks(lines, chunk_size) == SplitFrom(lines, 1, <<>>, 0, <<>>, chunk_size)

\* _get_cache_key: the digest of the chunk is modelled by the chunk
GetCacheKey(file_path, chunk_index, chunk) ==
    [file_path |-> file_path, chunk_index |-> chunk_index, content_hash |-> chunk]

\* the keys of one document, chunk by chunk
DocumentKeys(doc) ==
    LET chunks == SplitIntoChunks(doc.lines, ChunkSize)
    IN  [i \in 1..Len(chunks) |-> GetCacheKey(doc.path, i - 1, chunks[i])]

\* the keys build_index goes through, in its order
RECURSIVE WorkList(_, _)
WorkList(documents, d) ==
    IF d > Len(documents) THEN <<>>
    ELSE DocumentKeys(documents[d]) \o WorkList(documents, d + 1)

\* self._embeddings_cache[cache_key] = ...: a dict keeps the place of a key
\* it already holds
CachePut(cache, key) ==
    IF \E i \in 1..Len(cache) : cache[i] = key THEN cache ELSE Append(cache, key)

\* cache_file = self.cache_dir / f"{cache_key}.pkl": the key begins with the
\* document path, and joining an absolute path to cache_dir gives that path,
\* so the entry of a document with an absolute path lies beside the document
CacheFileDir(doc) == IF doc.absolute THEN "document_dir" ELSE "cache_dir"

\* _save_cached_embedding succeeds when the directory of the cache file can
\* be written; the cache directory can (the constructor has created it)
SaveSucceeds(doc) ==
    IF CacheFileDir(doc) = "cache_dir" THEN TRUE ELSE doc.dir_writable

\* The body of the inner loop of build_index for one chunk.  loadOk: the
\* cache file, when there is one, unpickles; saveOk: the file can be written.
\* Both failures are logged and otherwise ignored.
ProcessChunk(cr, key, loadOk, saveOk) ==
    IF key \in cr.disk /\ loadOk
    THEN [cr EXCEPT !.cache = CachePut(@, key), !.next = @ + 1]
    ELSE [cr EXCEPT !.cache = CachePut(@, key),
                    !.next = @ + 1,
                    !.computed[cr.run] = @ + 1,
                    !.disk = IF saveOk THEN @ \cup {key} ELSE @,
                    !.unreadable = IF key \in cr.disk THEN @ \cup {key} ELSE @]

\* the lines of a document, by their lengths
DocLines == {<<200>>, <<300, 300>>, <<200, 200, 200>>, <<600, 100>>, <<250, 250>>}

DocPaths == <<"README.md", "notes.txt", "main.py", "guide.rst">>

\* how a document is named and whether its directory can be written to
DocPlaces ==
    {[absolute |-> FALSE, dir_writable |-> TRUE],
     [absolute |-> TRUE, dir_writable |-> TRUE],
     [absolute |-> TRUE, dir_writable |-> FALSE]}

\* the documents given to build_index, an empty cache directory
CacheInit ==
    /\ \E n \in 1..MaxDocs :
           \E ls \in [1..n -> DocLines], ps \in [1..n -> DocPlaces] :
               cacheRun = [NoCacheRun EXCEPT
                   !.documents = [d \in 1..n |->
                       [path         |-> DocPaths[d],
                        lines        |-> ls[d],
                        absolute     |-> ps[d].absolute,
                        dir_writable |-> ps[d].dir_writable]]]
    /\ handled = NoHandled
    /\ srch = NoSearch
    /\ merge = NoMerge
    /\ scanFiles = <<>>
    /\ scanQuery = <<>>
    /\ scanOptions = OrchOptions(FALSE)
    /\ pyOut = NotRun
    /\ rgOut = NotRun
    /\ rgAvailable = TRUE
    /\ semanticOn = TRUE
    /\ MoreIdle
    /\ OrchIdle

\* build_index(documents) is called, the first time or, once the first run
\* is over, again with the same documents (by a new engine on the same cache
\* directory or by the same one)
BuildIndexCall ==
    /\ \/ cacheRun.run = 0
       \/ /\ cacheRun.run = 1
          /\ cacheRun.next > Len(WorkList(cacheRun.documents, 1))
    /\ cacheRun' = [cacheRun EXCEPT !.run = @ + 1, !.next = 1,
                                    !.disk1 = cacheRun.disk]
    /\ UNCHANGED <<scanFiles, scanQuery, scanOptions, pyOut, rgOut>>
    /\ UNCHANGED <<merge, handled, srch>>
    /\ UNCHANGED moreVars
    /\ UNCHANGED orchVars

\* build_index, one chunk
BuildChunk(loadOk) ==
    /\ cacheRun.run \in {1, 2}
    /\ cacheRun.next <= Len(WorkList(cacheRun.documents, 1))
    /\ LET key == WorkList(cacheRun.documents, 1)[cacheRun.next]
           doc == CHOOSE d \in Range(cacheRun.documents) : d.path = key.file_path
       IN  cacheRun' = ProcessChunk(cacheRun, key, loadOk, SaveSucceeds(doc))
    /\ UNCHANGED <<scanFiles, scanQuery, scanOptions, pyOut, rgOut>>
    /\ UNCHANGED <<merge, handled, srch>>
    /\ UNCHANGED moreVars
    /\ UNCHANGED orchVars

CacheNext ==
    \/ BuildIndexCall
    \/ \E loadOk \in BOOLEAN : BuildChunk(loadOk)

SpecCache == CacheInit /\ [][CacheNext]_vars

\* ----------------------------------------------------- the search model
\* the embeddings cache of n chunks of one document, in insertion order
SearchIndex(n) ==
    [i \in 1..n |-> [file_path |-> "README.md", chunk_index |-> i - 1]]

\* an index, the similarity of the query to each entry, top_k and threshold
SearchInit ==
    /\ srch \in [top_k                : 0..MaxTopK,
                 similarity_threshold : {0, 50, 90},
                 sims                 : UNION {[1..n -> {40, 50, 90, 100}] :
                                                  n \in 0..MaxEntries},
                 results              : {<<>>},
                 done                 : {FALSE}]
    /\ handled = NoHandled
    /\ cacheRun = NoCacheRun
    /\ merge = NoMerge
    /\ scanFiles = <<>>
    /\ scanQuery = <<>>
    /\ scanOptions = OrchOptions(FALSE)
    /\ pyOut = NotRun
    /\ rgOut = NotRun
    /\ rgAvailable = TRUE
    /\ semanticOn = TRUE
    /\ MoreIdle
    /\ OrchIdle

\* SemanticSearchEngine.search(query, top_k, similarity_threshold)
EngineSearch ==
    /\ ~srch.done
    /\ srch' = [srch EXCEPT
                   !.done = TRUE,
                   !.results = SemanticSearch(SearchIndex(Len(srch.sims)), srch.sims,
                                              srch.top_k, srch.similarity_threshold)]
    /\ UNCHANGED <<scanFiles, scanQuery, scanOptions, pyOut, rgOut>>
    /\ UNCHANGED <<merge, handled, cacheRun>>
    /\ UNCHANGED moreVars
    /\ UNCHANGED orchVars

SpecSearch == SearchInit /\ [][EngineSearch]_vars

\* ------------------------------------------------------ the merge model
\* the results of the two engines for one query, before the merge
MergeInit ==
    /\ merge \in [query   : {<<"a">>},
                  results : UNION {[1..n -> LexCandidates] : n \in 0..MaxLex},
                  sims    : UNION {[1..n -> MergeSims] : n \in 0..MaxIdx},
                  ret     : {<<>>},
                  done    : {FALSE}]
    /\ FunIdle
    /\ scanFiles = <<>>
    /\ scanQuery = <<>>
    /\ scanOptions = OrchOptions(FALSE)
    /\ pyOut = NotRun
    /\ rgOut = NotRun
    /\ rgAvailable = TRUE
    /\ semanticOn = TRUE
    /\ OrchIdle

\* perform_search from the conversion loop on, with both result lists in hand
MergeSortReturn ==
    /\ ~merge.done
    /\ merge' = [merge EXCEPT
                    !.done = TRUE,
                    !.ret  = MergeResults(merge.results, merge.query,
                                          SubSeq(MergeIndex, 1, Len(merge.sims)),
                                          merge.sims)]
    /\ UNCHANGED <<scanFiles, scanQuery, scanOptions, pyOut, rgOut>>
    /\ UNCHANGED <<handled, srch, cacheRun>>
    /\ UNCHANGED moreVars
    /\ UNCHANGED orchVars

SpecMerge == MergeInit /\ [][MergeSortReturn]_vars

\* ------------------------------------------------ the orchestrator model
Init ==
    /\ scanFiles = <<>>
    /\ scanQuery = <<>>
    /\ scanOptions = OrchOptions(FALSE)
    /\ pyOut = NotRun
    /\ rgOut = NotRun
    /\ merge = NoMerge
    /\ FunIdle
    /\ rgAvailable \in BOOLEAN
    /\ semanticOn \in BOOLEAN
    /\ OrchIdle

\* a perform_search without the empty-query test: every query is handed to
\* the executor
RequestUnguarded(c, q, r) ==
    /\ call[c].pc = "idle"
    /\ \A d \in Calls : d < c => call[d].pc # "idle"
    /\ lastReq' = lastReq + 1
    /\ call' = [call EXCEPT ![c] = [@ EXCEPT !.pc = "awaitLex",
                    !.query = q, !.use_regex = r, !.path = searchPath,
                            !.reqNo = lastReq + 1]]
    /\ lex' = [lex EXCEPT ![c].pc = "queued"]
    /\ UNCHANGED <<searchPath, rgAvailable, semanticOn, build, engine, index,
                   controlWork, executorWork>>
    /\ UNCHANGED scanVars

\* perform_search up to its first await: an empty query returns [] at once,
\* any other builds the options and hands _search_sync to the executor
Request(c, q, r) ==
    /\ call[c].pc = "idle"
    /\ \A d \in Calls : d < c => call[d].pc # "idle"
    /\ lastReq' = lastReq + 1
    /\ IF q = <<>>
       THEN /\ call' = [call EXCEPT ![c] = [@ EXCEPT !.pc = "returned",
                            !.query = q, !.use_regex = r, !.path = searchPath,
                            !.reqNo = lastReq + 1]]
            /\ lex' = lex
       ELSE /\ call' = [call EXCEPT ![c] = [@ EXCEPT !.pc = "awaitLex",
                            !.query = q, !.use_regex = r, !.path = searchPath,
                            !.reqNo = lastReq + 1]]
            /\ lex' = [lex EXCEPT ![c].pc = "queued"]
    /\ UNCHANGED <<searchPath, rgAvailable, semanticOn, build, engine, index,
                   controlWork, executorWork>>
    /\ UNCHANGED scanVars

\* Executor: _search_sync enters RipgrepWrapper.search.  With the tool
\* available the retry wrapper makes its first (and only) call of
\* _search_with_ripgrep, which returns a generator without running its body;
\* nothing the body raises later is raised inside the wrapper.
SearchStart(c) ==
    /\ lex[c].pc = "queued"
    /\ lex' = [lex EXCEPT ![c] =
                 IF rgAvailable
                 THEN [@ EXCEPT !.pc = "launch", !.attempt = 1]
                 ELSE IF fallback_to_python
                      THEN [@ EXCEPT !.pc = "python"]
                      ELSE [@ EXCEPT !.pc = "done", !.raised = "RuntimeError"]]
    /\ UNCHANGED <<searchPath, rgAvailable, semanticOn, call, build, engine, index,
                   lastReq, controlWork, executorWork>>
    /\ UNCHANGED scanVars

\* Executor: subprocess.Popen(cmd, ...).  OSError (the binary is gone, no
\* process can be forked) is no SubprocessError: it leaves the generator and
\* search, and is caught only by _search_sync.  SubprocessError is caught
\* in the generator, which turns to the fallback scanner.
Launch(c, outcome) ==
    /\ lex[c].pc = "launch"
    /\ lex' = [lex EXCEPT ![c] =
                 IF outcome = "ok"
                 THEN [@ EXCEPT !.pc = "reading", !.launches = @ + 1,
                          !.stdout = RgOutput(call[c].query, FilesBelow(call[c].path),
                                              OrchOptions(call[c].use_regex))]
                 ELSE IF outcome = "SubprocessError"
                      THEN IF fallback_to_python
                           THEN [@ EXCEPT !.pc = "python", !.launches = @ + 1,
                                    !.launchFailed = TRUE]
                           ELSE [@ EXCEPT !.pc = "done", !.launches = @ + 1,
                                    !.launchFailed = TRUE, !.raised = outcome]
                      ELSE [@ EXCEPT !.pc = "done", !.launches = @ + 1,
                               !.launchFailed = TRUE, !.raised = outcome]]
    /\ executorWork' = executorWork \cup {"subprocess"}
    /\ UNCHANGED <<searchPath, rgAvailable, semanticOn, call, build, engine, index,
                   lastReq, controlWork>>
    /\ UNCHANGED scanVars

\* Executor: one turn of `for line in process.stdout`
ReadLine(c) ==
    /\ lex[c].pc = "reading"
    /\ ~lex[c].hung
    /\ lex[c].stdout # <<>>
    /\ LET parsed == ParseEvent(Head(lex[c].stdout))
       IN  lex' = [lex EXCEPT ![c] =
                     IF parsed.error = "none"
                     THEN [@ EXCEPT !.stdout = Tail(@),
                              !.results = @ \o parsed.records]
                     ELSE [@ EXCEPT !.pc = "done", !.raised = parsed.error]]
    /\ UNCHANGED <<searchPath, rgAvailable, semanticOn, call, build, engine, index,
                   lastReq, controlWork, executorWork>>
    /\ UNCHANGED scanVars

\* Environment: the subprocess stops writing and does not exit.  The read
\* loop blocks in the next read; no timeout is set on it or on wait().
ProcHang(c) ==
    /\ lex[c].pc = "reading"
    /\ ~lex[c].hung
    /\ lex' = [lex EXCEPT ![c].hung = TRUE]
    /\ UNCHANGED <<searchPath, rgAvailable, semanticOn, call, build, engine, index,
                   lastReq, controlWork, executorWork>>
    /\ UNCHANGED scanVars

\* Environment: the subprocess fails after its launch: it exits with an
\* error status and what it had not yet written is never written.
ProcCrash(c) ==
    /\ lex[c].pc = "reading"
    /\ ~lex[c].hung
    /\ lex[c].exit = 0
    /\ lex[c].stdout # <<>>
    /\ lex' = [lex EXCEPT ![c].stdout = <<>>, ![c].exit = 2]
    /\ UNCHANGED <<searchPath, rgAvailable, semanticOn, call, build, engine, index,
                   lastReq, controlWork, executorWork>>
    /\ UNCHANGED scanVars

\* Executor: end of output; process.wait() returns and its status is not
\* looked at; the generator ends and _search_sync returns the results
WaitExit(c) ==
    /\ lex[c].pc = "reading"
    /\ ~lex[c].hung
    /\ lex[c].stdout = <<>>
    /\ lex' = [lex EXCEPT ![c].pc = "done"]
    /\ UNCHANGED <<searchPath, rgAvailable, semanticOn, call, build, engine, index,
                   lastReq, controlWork, executorWork>>
    /\ UNCHANGED scanVars

\* Executor: _search_with_python to exhaustion; what it raises leaves search
\* and is caught by _search_sync, which returns the results gathered so far
PythonScan(c) ==
    /\ lex[c].pc = "python"
    /\ LET out == SearchWithPython(call[c].query, FilesBelow(call[c].path),
                                   OrchOptions(call[c].use_regex))
       IN  lex' = [lex EXCEPT ![c] = [@ EXCEPT !.pc = "done",
                        !.usedFallback = TRUE,
                        !.results = @ \o out.results,
                        !.raised = out.error]]
    /\ executorWork' = executorWork \cup {"walk"}
    /\ UNCHANGED <<searchPath, rgAvailable, semanticOn, call, build, engine, index,
                   lastReq, controlWork>>
    /\ UNCHANGED scanVars

\* The rest of perform_search once the semantic results are in hand (or
\* the query embedding has failed): extend, sort, return.
\* engine.search returns [] on an empty index without embedding the query.
SemanticTail(cr, results, embedOk, sims) ==
    IF index = <<>>
    THEN [cr EXCEPT !.pc = "returned",
             !.ret = SortByScore(LexicalToUI(results, cr.query))]
    ELSE IF ~embedOk
         THEN [cr EXCEPT !.pc = "raised", !.error = "EmbeddingError"]
         ELSE [cr EXCEPT !.pc = "returned",
                  !.ret = MergeResults(results, cr.query, index, sims)]

\* Control thread: the lexical await completes, semantic search is off:
\* convert, sort, return
FinishLexicalOnly(c) ==
    /\ call[c].pc = "awaitLex"
    /\ lex[c].pc = "done"
    /\ ~semanticOn
    /\ call' = [call EXCEPT ![c] = [@ EXCEPT !.pc = "returned",
                    !.ret = SortByScore(LexicalToUI(lex[c].results, call[c].query))]]
    /\ UNCHANGED <<searchPath, rgAvailable, semanticOn, lex, build, engine, index,
                   lastReq, controlWork, executorWork>>
    /\ UNCHANGED scanVars

\* Control thread: the lexical await completes and there is no engine yet:
\* create it, collect the documents (here, on the control thread) and hand
\* build_index to the executor
StartIndexBuild(c) ==
    /\ call[c].pc = "awaitLex"
    /\ lex[c].pc = "done"
    /\ semanticOn
    /\ engine = "none"
    /\ engine' = "created"
    /\ LET documents == CollectDocuments(FilesBelow(searchPath))
       IN  build' = [build EXCEPT ![c] =
                       [pc   |-> IF documents = <<>> THEN "done" ELSE "running",
                        docs |-> documents, next |-> 1]]
    /\ call' = [call EXCEPT ![c].pc = "awaitBuild"]
    /\ controlWork' = controlWork \cup {"walk"}
    /\ UNCHANGED <<searchPath, rgAvailable, semanticOn, lex, index, lastReq, executorWork>>
    /\ UNCHANGED scanVars

\* Executor: build_index, one document: its chunk is embedded and stored,
\* or the embedding model raises and build_index ends with that exception
BuildIndexStep(c, ok) ==
    /\ build[c].pc = "running"
    /\ IF ok
       THEN /\ index' = AddToIndex(index, build[c].docs[build[c].next])
            /\ build' = [build EXCEPT ![c].next = @ + 1,
                            ![c].pc = IF build[c].next = Len(build[c].docs)
                                      THEN "done" ELSE "running"]
       ELSE /\ index' = index
            /\ build' = [build EXCEPT ![c].pc = "failed"]
    /\ executorWork' = executorWork \cup {"embed"}
    /\ UNCHANGED <<searchPath, rgAvailable, semanticOn, call, lex, engine, lastReq, controlWork>>
    /\ UNCHANGED scanVars

\* Control thread: the lexical await completes and an engine exists: no
\* await lies between here and the return, the semantic search runs here
FinishWithSemantic(c, embedOk, sims) ==
    /\ call[c].pc = "awaitLex"
    /\ lex[c].pc = "done"
    /\ semanticOn
    /\ engine # "none"
    /\ call' = [call EXCEPT ![c] = SemanticTail(@, lex[c].results, embedOk, sims)]
    /\ controlWork' = IF index = <<>> THEN controlWork
                      ELSE controlWork \cup {"embed"}
    /\ UNCHANGED <<searchPath, rgAvailable, semanticOn, lex, build, engine, index,
                   lastReq, executorWork>>
    /\ UNCHANGED scanVars

\* Control thread: the build await completes normally; the semantic search
\* runs here
FinishAfterBuild(c, embedOk, sims) ==
    /\ call[c].pc = "awaitBuild"
    /\ build[c].pc = "done"
    /\ call' = [call EXCEPT ![c] = SemanticTail(@, lex[c].results, embedOk, sims)]
    /\ controlWork' = IF index = <<>> THEN controlWork
                      ELSE controlWork \cup {"embed"}
    /\ UNCHANGED <<searchPath, rgAvailable, semanticOn, lex, build, engine, index,
                   lastReq, executorWork>>
    /\ UNCHANGED scanVars

\* Control thread: the build await re-raises what build_index raised;
\* nothing in _build_semantic_index, _perform_semantic_search or
\* perform_search catches it
BuildFailed(c) ==
    /\ call[c].pc = "awaitBuild"
    /\ build[c].pc = "failed"
    /\ call' = [call EXCEPT ![c].pc = "raised", ![c].error = "EmbeddingError"]
    /\ UNCHANGED <<searchPath, rgAvailable, semanticOn, lex, build, engine, index,
                   lastReq, controlWork, executorWork>>
    /\ UNCHANGED scanVars

\* the steps the executor task of call c can take by itself
LexStep(c) ==
    \/ SearchStart(c)
    \/ \E o \in LaunchOutcomes : Launch(c, o)
    \/ ReadLine(c)
    \/ WaitExit(c)
    \/ PythonScan(c)

Next ==
    \/ \E c \in Calls, q \in OrchQueries, r \in BOOLEAN : Request(c, q, r)
    \/ \E c \in Calls : SearchStart(c)
    \/ \E c \in Calls, o \in LaunchOutcomes : Launch(c, o)
    \/ \E c \in Calls : ReadLine(c)
    \/ \E c \in Calls : ProcHang(c)
    \/ \E c \in Calls : ProcCrash(c)
    \/ \E c \in Calls : WaitExit(c)
    \/ \E c \in Calls : PythonScan(c)
    \/ \E c \in Calls : FinishLexicalOnly(c)
    \/ \E c \in Calls : StartIndexBuild(c)
    \/ \E c \in Calls, ok \in BOOLEAN : BuildIndexStep(c, ok)
    \/ \E c \in Calls, e \in BOOLEAN, s \in [1..Len(index) -> SimLevels] :
           FinishWithSemantic(c, e, s)
    \/ \E c \in Calls, e \in BOOLEAN, s \in [1..Len(index) -> SimLevels] :
           FinishAfterBuild(c, e, s)
    \/ \E c \in Calls : BuildFailed(c)

Spec == Init /\ [][Next]_vars

\* ---------------------------------------- the orchestrator, a single call
\* The first perform_search on a fresh SearchIntegration, and no other.
NextFirst ==
    \/ \E q \in OrchQueries, r \in BOOLEAN : Request(1, q, r)
    \/ SearchStart(1)
    \/ \E o \in LaunchOutcomes : Launch(1, o)
    \/ ReadLine(1)
    \/ ProcHang(1)
    \/ ProcCrash(1)
    \/ WaitExit(1)
    \/ PythonScan(1)
    \/ FinishLexicalOnly(1)
    \/ StartIndexBuild(1)
    \/ \E ok \in BOOLEAN : BuildIndexStep(1, ok)
    \/ \E e \in BOOLEAN, s \in [1..Len(index) -> SimLevels] :
           FinishAfterBuild(1, e, s)
    \/ BuildFailed(1)

SpecFirst == Init /\ [][NextFirst]_vars

\* --------------------------------------------- the function-level models
\* everything but the models of the embedding backend, the output parser,
\* the retry decorator and the cache key is not in use
OthersIdle ==
    /\ scanFiles = <<>>
    /\ scanQuery = <<>>
    /\ scanOptions = OrchOptions(FALSE)
    /\ pyOut = NotRun
    /\ rgOut = NotRun
    /\ merge = NoMerge
    /\ handled = NoHandled
    /\ srch = NoSearch
    /\ cacheRun = NoCacheRun
    /\ rgAvailable = TRUE
    /\ semanticOn = FALSE
    /\ OrchIdle

OthersUnchanged ==
    /\ UNCHANGED <<scanFiles, scanQuery, scanOptions, pyOut, rgOut>>
    /\ UNCHANGED <<merge, handled, srch, cacheRun>>
    /\ UNCHANGED orchVars

\* -------------------------------------------------- the embedding model
MaxVecs == 4       \* embeddings one engine generates in SpecEmbed

\* the length of the vectors a model produces: EMBEDDING_MODEL defaults to
\* text-embedding-3-small; the local model is all-MiniLM-L6-v2
EmbeddingDim(model) ==
    CASE model = "text-embedding-3-small" -> 1536
      [] model = "all-MiniLM-L6-v2"       -> 384

\* _generate_embedding: the dimension of the vector it returns.  remoteOk
\* tells whether embeddings.create answered; when it raises, the local
\* model encodes the text instead.
GenerateEmbedding(e, remoteOk) ==
    IF e.use_openai /\ e.openai_api_key
    THEN IF remoteOk THEN EmbeddingDim("text-embedding-3-small")
         ELSE EmbeddingDim("all-MiniLM-L6-v2")
    ELSE EmbeddingDim("all-MiniLM-L6-v2")

\* np.dot(vec1, vec2) of _cosine_similarity raises on vectors of two lengths
SearchCompares(vectors, query) ==
    IF \E i \in DOMAIN vectors : vectors[i] # query THEN "ValueError" ELSE "none"

\* SemanticSearchEngine(use_openai=...), OPENAI_API_KEY set or not
EmbedInit ==
    /\ emb \in [use_openai : BOOLEAN, openai_api_key : BOOLEAN,
                vectors : {<<>>}, query : {0}, error : {"none"}]
    /\ parse = NoParse
    /\ rt = NoRetry
    /\ keyed = NoKeyed
    /\ OthersIdle

\* build_index, one chunk that is not in the cache directory
EmbedChunk(remoteOk) ==
    /\ Len(emb.vectors) < MaxVecs
    /\ emb' = [emb EXCEPT
                  !.vectors = Append(@, GenerateEmbedding(emb, remoteOk))]
    /\ UNCHANGED <<parse, rt, keyed>>
    /\ OthersUnchanged

\* search on a built index: the query is embedded and compared with every
\* vector of the index
EmbedQuery(remoteOk) ==
    /\ emb.vectors # <<>>
    /\ LET q == GenerateEmbedding(emb, remoteOk)
       IN  emb' = [emb EXCEPT !.query = q,
                              !.error = SearchCompares(emb.vectors, q)]
    /\ UNCHANGED <<parse, rt, keyed>>
    /\ OthersUnchanged

EmbedNext ==
    \/ \E remoteOk \in BOOLEAN : EmbedChunk(remoteOk)
    \/ \E remoteOk \in BOOLEAN : EmbedQuery(remoteOk)

SpecEmbed == EmbedInit /\ [][EmbedNext]_vars

\* ----------------------------------------------------- the parser model
MaxOut == 3        \* output lines of the matcher in SpecParse

\* a well-formed match line for the n-th line of README.md
MatchEvent(n) ==
    [type        |-> "match",
     path        |-> "README.md",
     line_number |-> n,
     lines       |-> <<"a", "b">>,
     submatches  |-> <<[start |-> 0, end |-> 1]>>]

\* a line json.loads cannot decode
GarbageEvent == [OtherEvent EXCEPT !.type = "garbage"]

\* a line that decodes to a match event without data.lines.text (the tool
\* writes data.lines.bytes for a line that is not valid UTF-8), without
\* data.path.text or without data.line_number
NoFieldsEvent == [OtherEvent EXCEPT !.type = "match_nofields"]

OutputLines == {MatchEvent(1), MatchEvent(2), OtherEvent, GarbageEvent, NoFieldsEvent}

\* process.stdout as the tool wrote it
ParseInit ==
    /\ parse \in [stdout  : UNION {[1..n -> OutputLines] : n \in 1..MaxOut},
                  next    : {1},
                  results : {<<>>},
                  error   : {"none"}]
    /\ emb = NoEmb
    /\ rt = NoRetry
    /\ keyed = NoKeyed
    /\ OthersIdle

\* one turn of `for line in process.stdout`; an exception ends the loop
ParseLine ==
    /\ parse.error = "none"
    /\ parse.next <= Len(parse.stdout)
    /\ LET r == ParseEvent(parse.stdout[parse.next])
       IN  parse' = [parse EXCEPT !.next = @ + 1,
                                  !.results = @ \o r.records,
                                  !.error = r.error]
    /\ UNCHANGED <<emb, rt, keyed>>
    /\ OthersUnchanged

SpecParse == ParseInit /\ [][ParseLine]_vars

\* ------------------------------- the orchestrator with update_search_path
\* update_search_path(path): self.search_path = path, and nothing else.
\* The front-end changes the directory between searches, when no call is
\* under way.
UpdateSearchPath(p) ==
    /\ p # searchPath
    /\ \A c \in Calls : call[c].pc \in {"idle", "returned", "raised"}
    /\ searchPath' = p
    /\ UNCHANGED <<rgAvailable, semanticOn, call, lex, build, engine, index,
                   lastReq, controlWork, executorWork>>
    /\ UNCHANGED scanVars

NextPath ==
    \/ Next
    \/ \E p \in SearchPaths : UpdateSearchPath(p)

SpecPath == Init /\ [][NextPath]_vars

\* ------------------------------------------------------ the retry model
MaxAttempts == 3   \* largest max_attempts of SpecRetry

\* the `exceptions` argument: the exception types that are retried
RetryExceptions == {"E1", "E2"}

\* what one invocation of the wrapped function does: it returns, or raises
\* an exception of those types, or raises another one
FuncOutcomes == {"ok", "E1", "E2", "X"}

\* one turn of the wrapper's loop with a constant delay
RetryStepFixedDelay(r, outcome) ==
    IF outcome = "ok"
    THEN [r EXCEPT !.outcomes = Append(@, outcome), !.result = "returned"]
    ELSE IF outcome \in RetryExceptions
         THEN IF r.attempt = r.max_attempts
              THEN [r EXCEPT !.outcomes = Append(@, outcome), !.result = outcome]
              ELSE [r EXCEPT !.outcomes = Append(@, outcome),
                             !.sleeps = Append(@, r.current_delay),
                             !.attempt = @ + 1]
         ELSE [r EXCEPT !.outcomes = Append(@, outcome), !.result = outcome]

\* One turn of `while attempt <= max_attempts`: the function is invoked; its
\* return ends the wrapper; an exception of the retried types is re-raised
\* at the last attempt and otherwise slept on; any other leaves the wrapper.
RetryStep(r, outcome) ==
    IF outcome = "ok"
    THEN [r EXCEPT !.outcomes = Append(@, outcome), !.result = "returned"]
    ELSE IF outcome \in RetryExceptions
         THEN IF r.attempt = r.max_attempts
              THEN [r EXCEPT !.outcomes = Append(@, outcome), !.result = outcome]
              ELSE [r EXCEPT !.outcomes = Append(@, outcome),
                             !.sleeps = Append(@, r.current_delay),
                             !.current_delay = @ * r.backoff,
                             !.attempt = @ + 1]
         ELSE [r EXCEPT !.outcomes = Append(@, outcome), !.result = outcome]

\* retry(max_attempts=n, delay=d, backoff=b, exceptions=E) applied to a
\* function; delays in tenths of a second
RetryInit ==
    /\ rt \in [max_attempts  : 0..MaxAttempts,
               delay         : {0, RetryDelay, 10},
               backoff       : {1, RetryBackoff, 3},
               outcomes      : {<<>>},
               attempt       : {0},
               current_delay : {0},
               sleeps        : {<<>>},
               result        : {"none"}]
    /\ emb = NoEmb
    /\ parse = NoParse
    /\ keyed = NoKeyed
    /\ OthersIdle

\* the wrapper is called: attempt = 1, current_delay = delay
RetryCall ==
    /\ rt.result = "none"
    /\ rt' = [rt EXCEPT !.attempt = 1, !.current_delay = rt.delay,
                        !.result = "running"]
    /\ UNCHANGED <<emb, parse, keyed>>
    /\ OthersUnchanged

RetryAttempt(outcome) ==
    /\ rt.result = "running"
    /\ rt.attempt <= rt.max_attempts
    /\ rt' = RetryStep(rt, outcome)
    /\ UNCHANGED <<emb, parse, keyed>>
    /\ OthersUnchanged

\* the loop ends without a return or a raise (max_attempts < 1): the
\* wrapper raises RuntimeError
RetryLoopExit ==
    /\ rt.result = "running"
    /\ rt.attempt > rt.max_attempts
    /\ rt' = [rt EXCEPT !.result = "RuntimeError"]
    /\ UNCHANGED <<emb, parse, keyed>>
    /\ OthersUnchanged

RetryNext ==
    \/ RetryCall
    \/ \E outcome \in FuncOutcomes : RetryAttempt(outcome)
    \/ RetryLoopExit

SpecRetry == RetryInit /\ [][RetryNext]_vars

\* -------------------------------------------------- the cache key model
MaxChunkIndex == 2 \* largest chunk index of SpecKey

\* document paths, with and without the ':' that separates the key's parts
KeyPaths == {"README.md", "notes.txt", "main.py",
             "C:/docs/a.md", "notes:2:x.md", "a:b.md"}

\* one chunk indexed under (file_path, chunk_index); the similarity of the
\* query to it is at or above the threshold
KeyInit ==
    /\ keyed \in [file_path   : KeyPaths,
                  chunk_index : 0..MaxChunkIndex,
                  similarity  : {SimilarityThreshold, 100},
                  top_k       : {1, TopK},
                  results     : {<<>>},
                  error       : {"none"},
                  done        : {FALSE}]
    /\ emb = NoEmb
    /\ parse = NoParse
    /\ rt = NoRetry
    /\ OthersIdle

\* search(query, top_k) on the index that holds the chunk
KeySearch ==
    /\ ~keyed.done
    /\ LET idx    == <<[file_path |-> keyed.file_path,
                        chunk_index |-> keyed.chunk_index]>>
           sims   == <<keyed.similarity>>
           raised == SearchRaises(idx, sims, keyed.top_k, SimilarityThreshold)
       IN  keyed' = [keyed EXCEPT
                        !.done = TRUE,
                        !.error = raised,
                        !.results = IF raised # "none" THEN <<>>
                                    ELSE SemanticSearch(idx, sims, keyed.top_k,
                                                        SimilarityThreshold)]
    /\ UNCHANGED <<emb, parse, rt>>
    /\ OthersUnchanged

SpecKey == KeyInit /\ [][KeySearch]_vars

\* --------------------------------------------------------------- claims
\* C1: on the same corpus, query and options the accelerated path and the
\* fallback scanner return the same set of (path, line, start, end) tuples.
C1_PathsAgree ==
    (pyOut.ran /\ rgOut.ran) => Tuples(pyOut.results) = Tuples(rgOut.results)

\* the matches of the corpus: what the scanner emits when nothing caps it
TotalMatches ==
    Len(SearchWithPython(scanQuery, scanFiles,
                         [scanOptions EXCEPT !.max_results = NoneInt]).results)

\* C3: with max_results = N the fallback scanner emits exactly
\* min(N, total matches) records.
C3_ExactCap ==
    (pyOut.ran /\ scanOptions.max_results # NoneInt)
        => Len(pyOut.results) = Min(scanOptions.max_results, TotalMatches)

\* C2: perform_search never raises, and what the lexical engine found is in
\* what it returns, whichever engine failed.
C2_EngineIsolation ==
    \A c \in Calls :
        /\ call[c].pc # "raised"
        /\ (call[c].pc = "returned" /\ call[c].query # <<>>)
               => \A k \in DOMAIN lex[c].results :
                      \E j \in DOMAIN call[c].ret :
                          /\ call[c].ret[j].origin = "lexical"
                          /\ call[c].ret[j].arrival = k

\* ret is in non-increasing score order; among equal scores lexical entries
\* precede semantic ones and entries of one origin keep their arrival order
Ranked(ret) ==
    \A i, j \in DOMAIN ret :
        i < j =>
            /\ ret[i].score >= ret[j].score
            /\ ret[i].score = ret[j].score =>
                   /\ ~(ret[i].origin = "semantic" /\ ret[j].origin = "lexical")
                   /\ ret[i].origin = ret[j].origin => ret[i].arrival < ret[j].arrival

\* C4: the sequence perform_search returns is sorted by score, largest first;
\* among equal scores every lexical result precedes every semantic one and
\* results of one origin keep the order in which their engine produced them.
C4_RankedOrder ==
    merge.done =>
        /\ Len(merge.ret) = Len(merge.results)
               + Len(SelectSeq(merge.sims, LAMBDA x : x >= SimilarityThreshold))
        /\ Ranked(merge.ret)

\* a merge has returned a lexical and a semantic entry of one score, two
\* lexical entries of one score and two semantic entries of one score
C4_Witness ==
    /\ merge.done
    /\ \E i, j \in DOMAIN merge.ret :
           /\ merge.ret[i].origin = "lexical"
           /\ merge.ret[j].origin = "semantic"
           /\ merge.ret[i].score = merge.ret[j].score
    /\ \E o \in {"lexical", "semantic"} :
           \E i, j \in DOMAIN merge.ret :
               /\ i # j
               /\ merge.ret[i].origin = o
               /\ merge.ret[j].origin = o
               /\ merge.ret[i].score = merge.ret[j].score

\* the same order in what the calls of the orchestrator model return
C4_RankedInCalls ==
    \A c \in Calls : call[c].pc = "returned" => Ranked(call[c].ret)

\* C5: while the lexical search of a call is in flight, its semantic search
\* can start: it does not wait for the lexical search to complete.
C5_Concurrent ==
    \A c \in Calls :
        (semanticOn /\ call[c].pc = "awaitLex" /\ lex[c].pc # "done")
            => ENABLED (StartIndexBuild(c)
                        \/ \E e \in BOOLEAN, s \in [1..Len(index) -> SimLevels] :
                               FinishWithSemantic(c, e, s))

\* C6: no search work (subprocess, file-tree walking, embedding) runs on the
\* control thread.
C6_NoWorkOnControlThread == controlWork = {}

\* C7: a call delivers its result only if no newer call has been requested.
C7_StaleDiscarded ==
    [][\A c \in Calls :
          (call[c].pc # "returned" /\ call'[c].pc = "returned")
              => call'[c].reqNo = lastReq']_vars

\* C8: when the tool is absent, cannot be launched or fails after its launch,
\* search completes through the fallback scanner and raises nothing.
C8_FallbackCompletes ==
    \A c \in Calls :
        (lex[c].pc = "done"
            /\ (~rgAvailable \/ lex[c].launchFailed \/ lex[c].exit # 0))
            => (lex[c].usedFallback /\ lex[c].raised = "none")

\* C9: the accelerated path gives up on launch failures only after 3 launch
\* attempts, having waited 0.5 s and then 1.0 s between them.
C9_LaunchRetried ==
    \A c \in Calls :
        (lex[c].launchFailed /\ lex[c].pc \in {"python", "done"})
            => /\ lex[c].launches = RetryMaxAttempts
               /\ lex[c].sleeps = <<RetryDelay, RetryDelay * RetryBackoff>>

\* C10: a lexical search that has not completed can always take a step of its
\* own: when the subprocess hangs, a timeout ends the wait.
C10_BoundedWait ==
    \A c \in Calls :
        lex[c].pc \notin {"idle", "done"} => ENABLED LexStep(c)

\* the file name of a path: its words after the last '/'
FileName(path) ==
    LET toks   == PathTokens(path)
        slashes == {i \in DOMAIN toks : toks[i] = "/"}
        last   == IF slashes = {} THEN 0
                  ELSE CHOOSE i \in slashes : \A j \in slashes : j <= i
    IN  SubSeq(toks, last + 1, Len(toks))

\* the score the contract gives a lexical result
ContractLexicalScore(path, line, query) ==
    LET name == FileName(path)
        n    == Len(name)
    IN  IF ~Contains(Lower(line), Lower(query)) THEN 2
        ELSE IF \E i \in 1..n : LowerToken(name[i]) = "readme" THEN 5
        ELSE IF n >= 3 /\ name[n - 1] = "." /\ name[n] \in {"md", "rst", "txt"} THEN 4
        ELSE 3

\* C13: a lexical result scores 5 when its line contains the query and the
\* file name is a readme name, else 4 when the line contains the query and
\* the file has a documentation extension, else 3 when the line contains the
\* query, and 2 when it does not.
C13_LexicalScore ==
    merge.done =>
        \A k \in DOMAIN merge.ret :
            merge.ret[k].origin = "lexical"
                => merge.ret[k].score =
                       ContractLexicalScore(merge.ret[k].file_path,
                                            merge.ret[k].content, merge.query)

\* round(n / d) for n >= 0, d > 0: to the nearest integer, a half to the even
\* neighbour
Round(n, d) ==
    LET q == n \div d
        r == n % d
    IN  IF 2 * r < d THEN q
        ELSE IF 2 * r > d THEN q + 1
        ELSE IF q % 2 = 0 THEN q ELSE q + 1

\* the score the contract gives a similarity held in hundredths
ContractSemanticScore(similarity) ==
    LET rounded == Round(similarity * 5, 100)
    IN  IF rounded < 1 THEN 1 ELSE rounded

\* what the semantic engine returned in the merge
MergeSemantic ==
    SemanticSearch(SubSeq(MergeIndex, 1, Len(merge.sims)), merge.sims,
                   TopK, SimilarityThreshold)

\* C14: the score of a semantic result is round(similarity * 5), and at
\* least 1.
C14_SemanticScore ==
    merge.done =>
        \A k \in DOMAIN merge.ret :
            merge.ret[k].origin = "semantic"
                => merge.ret[k].score =
                       ContractSemanticScore(
                           MergeSemantic[merge.ret[k].arrival].similarity_score)

\* C15: every result perform_search returns, lexical or semantic, has a score
\* in 1..5.
C15_ScoreRange ==
    merge.done => \A k \in DOMAIN merge.ret : merge.ret[k].score \in 1..5

\* a merge has returned a lexical and a semantic entry, and entries at both
\* ends of the scale
C15_Witness ==
    /\ merge.done
    /\ \E i, j \in DOMAIN merge.ret :
           /\ merge.ret[i].origin = "lexical"
           /\ merge.ret[j].origin = "semantic"
           /\ merge.ret[j].score = 5
           /\ merge.ret[i].score = 2

\* C16: what perform_search returns holds no two entries of one origin with
\* the same path, line number and display text.
C16_Deduplicated ==
    \A c \in Calls :
        call[c].pc = "returned" =>
            \A i, j \in DOMAIN call[c].ret :
                (/\ i # j
                 /\ call[c].ret[i].origin = call[c].ret[j].origin
                 /\ call[c].ret[i].file_path = call[c].ret[j].file_path
                 /\ call[c].ret[i].line_number = call[c].ret[j].line_number)
                    => call[c].ret[i].content # call[c].ret[j].content

\* the files of the scanned corpus that can be read
ReadableFiles == SelectSeq(scanFiles, LAMBDA f : f.readable)

\* C17: in the fallback scanner a file that cannot be read is skipped and
\* nothing else changes: the scan raises nothing and emits what the scan of
\* the readable files emits.
C17_ReadErrorSkipped ==
    (pyOut.ran /\ \E i \in DOMAIN Visits(scanFiles, scanOptions) :
                      ~Visits(scanFiles, scanOptions)[i].readable)
        => /\ pyOut.error = "none"
           /\ pyOut.results =
                  SearchWithPython(scanQuery, ReadableFiles, scanOptions).results

\* the same, for literal mode alone
C17_ReadErrorSkippedLiteral == ~scanOptions.use_regex => C17_ReadErrorSkipped

\* the positions at which the query occurs in a line, as the options compare
OccurrencePositions(line, query, options) ==
    {p \in 0..Len(line) :
        IF options.case_sensitive THEN OccursAt(line, query, p)
        ELSE OccursAt(Lower(line), Lower(query), p)}

\* the occurrences in one file
OccurrencesIn(file, query, options) ==
    UNION {{<<n, p>> : p \in OccurrencePositions(file.lines[n], query, options)} :
              n \in DOMAIN file.lines}

\* the occurrences in the files visited before the i-th
RECURSIVE OccurrencesBefore(_, _, _, _)
OccurrencesBefore(visits, i, query, options) ==
    IF i <= 1 THEN 0
    ELSE OccurrencesBefore(visits, i - 1, query, options)
         + (IF visits[i - 1].readable
            THEN Cardinality(OccurrencesIn(visits[i - 1], query, options))
            ELSE 0)

\* the visited files the scan opens: readable, and reached before the cap
ScannedFiles ==
    LET visits == Visits(scanFiles, scanOptions)
    IN  {i \in DOMAIN visits :
            /\ visits[i].readable
            /\ ~LimitReached(OccurrencesBefore(visits, i, scanQuery, scanOptions),
                             scanOptions)}

\* C18: in literal mode the fallback scanner emits, for each line of each
\* scanned file, exactly one record per position at which the query occurs
\* (case folded unless case_sensitive), overlapping occurrences included, in
\* increasing position, with match_start = p and match_end = p + len(query),
\* and no other record.
C18_LiteralOccurrences ==
    (pyOut.ran /\ ~scanOptions.use_regex) =>
        LET visits == Visits(scanFiles, scanOptions)
            R      == pyOut.results
        IN  /\ \A k \in DOMAIN R :
                   \E i \in ScannedFiles :
                       /\ R[k].file_path = visits[i].path
                       /\ R[k].line_number \in DOMAIN visits[i].lines
                       /\ R[k].line_content = visits[i].lines[R[k].line_number]
                       /\ R[k].match_start \in
                              OccurrencePositions(R[k].line_content, scanQuery,
                                                  scanOptions)
                       /\ R[k].match_end = R[k].match_start + Len(scanQuery)
            /\ \A i \in ScannedFiles :
                   \A n \in DOMAIN visits[i].lines :
                       \A p \in OccurrencePositions(visits[i].lines[n], scanQuery,
                                                    scanOptions) :
                           Cardinality({k \in DOMAIN R :
                               /\ R[k].file_path = visits[i].path
                               /\ R[k].line_number = n
                               /\ R[k].match_start = p}) = 1
            /\ \A k, l \in DOMAIN R :
                   (k < l /\ R[k].file_path = R[l].file_path
                          /\ R[k].line_number = R[l].line_number)
                       => R[k].match_start < R[l].match_start

\* a literal scan has emitted two overlapping occurrences, found by folding
\* case
C18_Witness ==
    /\ pyOut.ran
    /\ ~scanOptions.use_regex
    /\ ~scanOptions.case_sensitive
    /\ \E k, l \in DOMAIN pyOut.results :
           /\ pyOut.results[k].line_number = pyOut.results[l].line_number
           /\ pyOut.results[k].match_start < pyOut.results[l].match_start
           /\ pyOut.results[l].match_start < pyOut.results[k].match_end
           /\ pyOut.results[k].line_content # Lower(pyOut.results[k].line_content)

\* C19: a perform_search with an empty query returns the empty sequence and
\* starts neither engine: no executor task, no engine, no index build.
C19_EmptyQuery ==
    \A c \in Calls :
        (call[c].pc # "idle" /\ call[c].query = <<>>)
            => /\ call[c].pc = "returned"
               /\ call[c].ret = <<>>
               /\ lex[c] = IdleLex
               /\ build[c] = IdleBuild
               /\ (\A d \in Calls : call[d].query = <<>>)
                      => (engine = "none" /\ index = <<>>
                          /\ controlWork = {} /\ executorWork = {})

\* an empty query has been answered with both engines ready to be used
C19_Witness ==
    /\ semanticOn
    /\ rgAvailable
    /\ call[1].pc = "returned"
    /\ call[1].query = <<>>
    /\ call[1].reqNo = 1

\* the class the contract puts a failure in
ContractClass(type) ==
    CASE type = "RipgrepNotFoundError" -> "tool-unavailable"
      [] type = "SearchTimeoutError"   -> "timeout"
      [] type = "PermissionError"      -> "permission-denied"
      [] type \in {"OSError", "FileNotFoundError", "TimeoutError"} -> "io-failure"
      [] OTHER                         -> "unknown"

\* the message of a class
ContractMessage(class, text, fallback_message) ==
    CASE class = "tool-unavailable"  -> <<"ripgrep_not_found">>
      [] class = "timeout"           -> <<"timeout">>
      [] class = "permission-denied" -> <<"permission">>
      [] class = "io-failure"        -> <<"system_error", text>>
      [] OTHER -> IF fallback_message # "" THEN <<fallback_message>>
                  ELSE <<"error", text>>

\* C20: handle_search_error returns the message of the one class the failure
\* belongs to: tool-unavailable (RipgrepNotFoundError), timeout
\* (SearchTimeoutError), permission-denied (PermissionError, never the I/O
\* message), I/O failure (any other OSError) or unknown, where the caller's
\* fallback message is returned when one is given.
C20_Classified ==
    handled.done =>
        handled.message =
            ContractMessage(ContractClass(handled.error), handled.text,
                            handled.fallback_message)

\* a permission failure has been handled on behalf of a caller that gave a
\* fallback message
C20_Witness ==
    /\ handled.done
    /\ handled.error = "PermissionError"
    /\ handled.fallback_message = "try again"
    /\ handled.message = <<"permission">>

\* C12: search returns at most top_k results, each an index entry with its
\* similarity, which is at least the threshold; similarities do not increase
\* along the sequence and equal ones are in index insertion order; no entry
\* that meets the threshold and was left out has a higher similarity than a
\* returned one.
C12_SearchRanked ==
    srch.done =>
        LET out == srch.results
            n   == Len(srch.sims)
            \* the index position of a result
            at(k) == out[k].chunk_index + 1
        IN  /\ Len(out) <= srch.top_k
            /\ \A k \in DOMAIN out :
                   /\ at(k) \in 1..n
                   /\ out[k].file_path = SearchIndex(n)[at(k)].file_path
                   /\ out[k].similarity_score = srch.sims[at(k)]
                   /\ out[k].similarity_score >= srch.similarity_threshold
            /\ \A k, l \in DOMAIN out :
                   k < l => /\ out[k].similarity_score >= out[l].similarity_score
                            /\ out[k].similarity_score = out[l].similarity_score
                                   => at(k) < at(l)
            /\ \A i \in 1..n :
                   (/\ srch.sims[i] >= srch.similarity_threshold
                    /\ \A k \in DOMAIN out : at(k) # i)
                       => \A k \in DOMAIN out : srch.sims[i] <= out[k].similarity_score

\* a search has cut its results to top_k, kept a tie in insertion order and
\* left out an entry that met the threshold
C12_Witness ==
    /\ srch.done
    /\ Len(srch.results) = 2
    /\ srch.top_k = 2
    /\ srch.results[1].similarity_score = srch.results[2].similarity_score
    /\ \E i \in DOMAIN srch.sims :
           /\ srch.sims[i] >= srch.similarity_threshold
           /\ \A k \in DOMAIN srch.results : srch.results[k].chunk_index + 1 # i
    /\ \E i \in DOMAIN srch.sims : srch.sims[i] < srch.similarity_threshold

\* C11: a second build_index on unchanged documents, with every cache file
\* it finds intact, performs no embedding computation: every chunk is served
\* from the persisted cache.
C11_SecondRunNoEmbedding ==
    (cacheRun.run = 2 /\ cacheRun.unreadable = {}) => cacheRun.computed[2] = 0

\* the same, when no document lies in a directory that cannot be written to
C11_SecondRunWritable ==
    (\A d \in Range(cacheRun.documents) : d.dir_writable)
        => C11_SecondRunNoEmbedding
\* C21: every record the lexical engine emits, on either path, has
\* 0 <= match_start <= match_end <= len(line_content).
C21_OffsetsWithinLine ==
    \A out \in {pyOut, rgOut} :
        \A k \in DOMAIN out.results :
            /\ 0 <= out.results[k].match_start
            /\ out.results[k].match_start <= out.results[k].match_end
            /\ out.results[k].match_end <= Len(out.results[k].line_content)

\* the same, for the fallback scanner alone
C21_OffsetsWithinLinePython ==
    \A k \in DOMAIN pyOut.results :
        /\ 0 <= pyOut.results[k].match_start
        /\ pyOut.results[k].match_start <= pyOut.results[k].match_end
        /\ pyOut.results[k].match_end <= Len(pyOut.results[k].line_content)

\* C22: all vectors held in one index have one dimension, and every query
\* vector compared with them has that dimension too, whatever build_index
\* and search calls were made and whether or not the remote backend failed.
C22_OneDimension ==
    /\ \A i, j \in DOMAIN emb.vectors : emb.vectors[i] = emb.vectors[j]
    /\ emb.query # 0 => \A i \in DOMAIN emb.vectors : emb.vectors[i] = emb.query

\* the same, for an engine that uses the local model only
C22_OneDimensionLocal ==
    ~(emb.use_openai /\ emb.openai_api_key) => C22_OneDimension

RECURSIVE SumLengths(_)
SumLengths(chunk) ==
    IF chunk = <<>> THEN 0 ELSE Head(chunk) + SumLengths(Tail(chunk))

\* len('\n'.join(chunk)): the lines and one newline between each two
ChunkChars(chunk) == SumLengths(chunk) + (Len(chunk) - 1)

RECURSIVE Flatten(_)
Flatten(chunks) ==
    IF chunks = <<>> THEN <<>> ELSE Head(chunks) \o Flatten(Tail(chunks))

\* the chunks build_index has split the documents into
BuiltChunks ==
    IF cacheRun.run = 0 THEN {}
    ELSE UNION {Range(SplitIntoChunks(d.lines, ChunkSize)) :
                    d \in Range(cacheRun.documents)}

\* no line of a document is split, lost or moved: the chunks, one after the
\* other, are the lines of the document
C23_LinesKept ==
    cacheRun.run > 0 =>
        \A d \in Range(cacheRun.documents) :
            Flatten(SplitIntoChunks(d.lines, ChunkSize)) = d.lines

\* C23: every chunk of _split_into_chunks has at most chunk_size characters
\* unless it is a single line, and no line is split across two chunks.
C23_ChunkBounded ==
    /\ \A chunk \in BuiltChunks :
           ChunkChars(chunk) <= ChunkSize \/ Len(chunk) = 1
    /\ C23_LinesKept

\* the well-formed match lines of the output, in order
WellFormed == SelectSeq(parse.stdout, LAMBDA ev : ev.type = "match")

\* C24: a malformed output line of the matcher, be it no JSON at all or a
\* match event without its fields, is skipped without raising, and every
\* well-formed match line after it is still parsed and emitted.
C24_MalformedSkipped ==
    /\ parse.error = "none"
    /\ parse.next > Len(parse.stdout)
           => parse.results = ParseAll(WellFormed, 1)

\* the same, for output whose only malformed lines are lines that are not
\* JSON
C24_NotJsonSkipped ==
    (\A i \in DOMAIN parse.stdout : parse.stdout[i].type # "match_nofields")
        => C24_MalformedSkipped

\* C25: when perform_search calls overlap, a call runs its semantic search
\* only on a completely built index: at the step in which a call with the
\* semantic engine in place goes from its lexical await to its return, a
\* build_index has finished and none is still running.
C25_SearchOnBuiltIndex ==
    [][\A c \in Calls :
          (/\ semanticOn
           /\ call[c].pc = "awaitLex"
           /\ call'[c].pc \in {"returned", "raised"})
          => /\ \E d \in Calls : build[d].pc = "done"
             /\ \A d \in Calls : build[d].pc # "running"]_vars

\* the paths of the files below a directory
PathsBelow(path) == {FilesBelow(path)[i].path : i \in DOMAIN FilesBelow(path)}

\* C26: a perform_search made while search_path is p returns results,
\* lexical and semantic alike, for documents below p only, whatever searches
\* and updates of the path came before.
C26_ResultsBelowPath ==
    \A c \in Calls :
        call[c].pc = "returned" =>
            \A k \in DOMAIN call[c].ret :
                call[c].ret[k].file_path \in PathsBelow(call[c].path)

\* the same, for the lexical results alone
C26_LexicalBelowPath ==
    \A c \in Calls :
        call[c].pc = "returned" =>
            \A k \in DOMAIN call[c].ret :
                call[c].ret[k].origin = "lexical"
                    => call[c].ret[k].file_path \in PathsBelow(call[c].path)

RECURSIVE Pow(_, _)
Pow(b, k) == IF k = 0 THEN 1 ELSE b * Pow(b, k - 1)

\* C27: a function wrapped by retry(max_attempts=n, delay=d, backoff=b,
\* exceptions=E) is invoked at most n times; an invocation is followed by
\* another only if it failed with an exception in E (so none follows a
\* return or an exception outside E); the wait after the k-th failure,
\* k < n, is d * b^(k-1); a return ends the call with the returned value,
\* the n-th failure and an exception outside E are raised to the caller.
C27_RetryContract ==
    LET n  == rt.max_attempts
        os == rt.outcomes
    IN  /\ Len(os) <= n
        /\ \A i \in DOMAIN os : i < Len(os) => os[i] \in RetryExceptions
        /\ Len(rt.sleeps) =
               Cardinality({i \in DOMAIN os : os[i] \in RetryExceptions /\ i < n})
        /\ \A k \in DOMAIN rt.sleeps :
               rt.sleeps[k] = rt.delay * Pow(rt.backoff, k - 1)
        /\ os # <<>> =>
               LET last == os[Len(os)]
               IN  /\ last = "ok" => rt.result = "returned"
                   /\ last \notin RetryExceptions \cup {"ok"} => rt.result = last
                   /\ (last \in RetryExceptions /\ Len(os) = n) => rt.result = last
                   /\ (last \in RetryExceptions /\ Len(os) < n) => rt.result = "running"
        /\ rt.result \in {"returned"} \cup FuncOutcomes => os # <<>>

\* three attempts, each failing with a retried exception: two waits, the
\* second twice the first, and the third exception is the one raised
C27_Witness ==
    /\ rt.max_attempts = 3
    /\ rt.delay = RetryDelay
    /\ rt.backoff = RetryBackoff
    /\ rt.outcomes = <<"E1", "E2", "E1">>
    /\ rt.sleeps = <<RetryDelay, RetryDelay * RetryBackoff>>
    /\ rt.result = "E1"

\* C28: the result search reports for a chunk indexed under a document path
\* and a chunk index carries exactly that path and that index, for every
\* path, those that contain ':' included.
C28_KeyRoundTrip ==
    keyed.done =>
        /\ keyed.error = "none"
        /\ Len(keyed.results) = 1
        /\ keyed.results[1].file_path = keyed.file_path
        /\ keyed.results[1].chunk_index = keyed.chunk_index

\* the same, for the paths without ':'
C28_KeyRoundTripNoColon ==
    Len(ColonSplit(keyed.file_path)) = 1 => C28_KeyRoundTrip

====
